---- MODULE Spec2Model ----
(***************************************************************************)
(* A model of wrapper.py: the FEMMSession command channel (call_femm,      *)
(* call_femm_with_args, _parse_args, _fix_path), the doctype bookkeeping   *)
(* (new_document, set_mode, mode) and the PreprocessorAPI /                *)
(* PostProcessorAPI methods that compose engine commands.                   *)
(*                                                                         *)
(* A Python str is a sequence of one-character strings.  A Python number   *)
(* is a tagged record: IntV(n) is the int n, FloatV(u) is the float        *)
(* u / 10^5 (every float the wrapper computes is a half-integer or the     *)
(* output of np.round(..., decimals=5)); IEEE negative zero is not         *)
(* distinguished from zero.  The engine behind mlab2femm is the            *)
(* environment: it answers each submitted command with a text.             *)
(***************************************************************************)
EXTENDS Integers, Sequences, FiniteSets, TLC

VARIABLES
    started,         \* TRUE once FEMMSession.__init__ has completed
    doctype_prefix,  \* FEMMSession.doctype_prefix: NoneVal or a prefix character
    engine_log,      \* the mlab2femm calls of the last API call: <<[cmd, resp], ...>>
    call,            \* the last API call: its name, its inputs, the prefix before it
    outcome          \* how the last API call ended: a return value or an exception

vars == <<started, doctype_prefix, engine_log, call, outcome>>

\* ------------------------------------------------------------------ bounds

MaxPathLen == 4
MaxRespLen == 5
MaxArgs == 3
MaxPoints == 2
MaxRepeat == 3

\* ------------------------------------------------------------ Python values

NoneVal == "None"

IntV(n) == [t |-> "int", v |-> n]
FloatV(u) == [t |-> "float", v |-> u]
StrV(s) == [t |-> "str", v |-> s]
ListV(xs) == [t |-> "list", v |-> xs]

Returned(v) == [kind |-> "return", value |-> v, exc |-> "", detail |-> <<>>]
Raised(e, d) == [kind |-> "raise", value |-> NoneVal, exc |-> e, detail |-> d]

Max(a, b) == IF a > b THEN a ELSE b

RECURSIVE Concat(_)
Concat(ss) == IF ss = <<>> THEN <<>> ELSE Head(ss) \o Concat(Tail(ss))

Digit(d) == CASE d = 0 -> "0" [] d = 1 -> "1" [] d = 2 -> "2" [] d = 3 -> "3"
              [] d = 4 -> "4" [] d = 5 -> "5" [] d = 6 -> "6" [] d = 7 -> "7"
              [] d = 8 -> "8" [] d = 9 -> "9"

RECURSIVE NatToStr(_)
NatToStr(n) == IF n < 10 THEN <<Digit(n)>> ELSE NatToStr(n \div 10) \o <<Digit(n % 10)>>

\* str(int)
IntToStr(n) == IF n < 0 THEN <<"-">> \o NatToStr(-n) ELSE NatToStr(n)

RECURSIVE StripZeros(_)
StripZeros(s) ==
    IF Len(s) > 1 /\ s[Len(s)] = "0" THEN StripZeros(SubSeq(s, 1, Len(s) - 1)) ELSE s

\* the five digits of a fraction f / 10^5
Frac5(f) == <<Digit(f \div 10000), Digit((f \div 1000) % 10), Digit((f \div 100) % 10),
              Digit((f \div 10) % 10), Digit(f % 10)>>

\* str(float) for the float u / 10^5: the shortest decimal that reads back, which
\* Python writes with an exponent below 10^-4
FloatToStr(u) ==
    LET a == IF u < 0 THEN -u ELSE u
        sign == IF u < 0 THEN <<"-">> ELSE <<>>
    IN  IF 0 < a /\ a < 10
        THEN sign \o <<Digit(a), "e", "-", "0", "5">>
        ELSE sign \o NatToStr(a \div 100000) \o <<".">> \o StripZeros(Frac5(a % 100000))

\* str(arg) of a number
NumToStr(x) == IF x.t = "int" THEN IntToStr(x.v) ELSE FloatToStr(x.v)

\* ------------------------------------------------------- FEMMSession helpers

\* str.replace(old, new): left to right, non-overlapping, one pass
RECURSIVE Replace(_, _, _)
Replace(s, old, new) ==
    IF Len(s) < Len(old) THEN s
    ELSE IF SubSeq(s, 1, Len(old)) = old
         THEN new \o Replace(SubSeq(s, Len(old) + 1, Len(s)), old, new)
         ELSE <<Head(s)>> \o Replace(Tail(s), old, new)

\* FEMMSession._fix_path
FixPath(path) == Replace(Replace(path, <<"\\">>, <<"/">>), <<"/", "/">>, <<"/">>)

\* FEMMSession._quote
Quote(string) == <<"\"">> \o string \o <<"\"">>

\* the lambda of _parse_args: f'"{arg}"' for a str, str(arg) otherwise
RenderArg(arg) == IF arg.t = "str" THEN <<"\"">> \o arg.v \o <<"\"">> ELSE NumToStr(arg)

\* the arguments joined by "," alone
RECURSIVE Join_CommaOnly(_)
Join_CommaOnly(parts) ==
    IF parts = <<>> THEN <<>>
    ELSE IF Len(parts) = 1 THEN parts[1]
    ELSE parts[1] \o <<",">> \o Join_CommaOnly(Tail(parts))

\* ', '.join(parts)
RECURSIVE Join(_)
Join(parts) ==
    IF parts = <<>> THEN <<>>
    ELSE IF Len(parts) = 1 THEN parts[1]
    ELSE parts[1] \o <<",", " ">> \o Join(Tail(parts))

\* FEMMSession._parse_args
ParseArgs(args) ==
    <<"(">> \o Join([i \in 1..Len(args) |-> RenderArg(args[i])]) \o <<")">>

\* ------------------------------------------------- eval of a response text

\* The response alphabet of the model: the error sentinel, the list brackets, the
\* comma and two digits.  Over it a Python expression is a number (digits, or
\* digits "e" digits: a float), a list display, a subscription, or a comma
\* separated tuple of these; every other text makes eval raise.
IsDigit(c) == c \in {"0", "1", "2", "3", "4", "5", "6", "7", "8", "9"}

DigitVal(c) == CASE c = "0" -> 0 [] c = "1" -> 1 [] c = "2" -> 2 [] c = "3" -> 3
                 [] c = "4" -> 4 [] c = "5" -> 5 [] c = "6" -> 6 [] c = "7" -> 7
                 [] c = "8" -> 8 [] c = "9" -> 9

RECURSIVE DigitsToNat(_)
DigitsToNat(s) ==
    IF s = <<>> THEN 0 ELSE 10 * DigitsToNat(SubSeq(s, 1, Len(s) - 1)) + DigitVal(s[Len(s)])

\* a float literal m e x, kept as its mantissa and exponent (m * 10^x)
EFloatV(m, x) == [t |-> "efloat", v |-> <<m, x>>]
TupleV(xs) == [t |-> "tuple", v |-> xs]

ParseFail == [ok |-> FALSE, val |-> NoneVal, next |-> 0]
ParseOk(v, n) == [ok |-> TRUE, val |-> v, next |-> n]

\* the index after the run of digits that starts at i
RECURSIVE DigitsEnd(_, _)
DigitsEnd(s, i) == IF i <= Len(s) /\ IsDigit(s[i]) THEN DigitsEnd(s, i + 1) ELSE i

\* a number token at i (s[i] is a digit)
ParseNumber(s, i) ==
    LET j == DigitsEnd(s, i)
        k == DigitsEnd(s, j + 1)
    IN  IF j < Len(s) /\ s[j] = "e" /\ IsDigit(s[j + 1])
        THEN ParseOk(EFloatV(DigitsToNat(SubSeq(s, i, j - 1)),
                             DigitsToNat(SubSeq(s, j + 1, k - 1))), k)
        ELSE ParseOk(IntV(DigitsToNat(SubSeq(s, i, j - 1))), j)

\* F(x), with x computed once
Bind(x, F(_)) == CHOOSE v \in {F(e) : e \in {x}} : TRUE

RECURSIVE ParseElem(_, _), ParseItems(_, _, _), ParseTrailers(_, _, _)

\* one expression at i: an atom and its subscriptions
ParseElem(s, i) ==
    IF i > Len(s) THEN ParseFail
    ELSE IF s[i] = "[" THEN
        Bind(ParseItems(s, i + 1, <<>>),
             LAMBDA r : IF r.ok THEN ParseTrailers(s, r.next, ListV(r.val)) ELSE ParseFail)
    ELSE IF IsDigit(s[i]) THEN
        Bind(ParseNumber(s, i), LAMBDA n : ParseTrailers(s, n.next, n.val))
    ELSE ParseFail

\* the items of a list display after its "[" (or after one of its commas)
ParseItems(s, i, acc) ==
    IF i > Len(s) THEN ParseFail
    ELSE IF s[i] = "]" THEN ParseOk(acc, i + 1)
    ELSE Bind(ParseElem(s, i),
              LAMBDA e :
                  IF ~e.ok \/ e.next > Len(s) THEN ParseFail
                  ELSE IF s[e.next] = ","
                       THEN Bind(Append(acc, e.val),
                                 LAMBDA items : ParseItems(s, e.next + 1, items))
                  ELSE IF s[e.next] = "]" THEN ParseOk(Append(acc, e.val), e.next + 1)
                  ELSE ParseFail)

\* base[index]...: a list subscripted by an int inside its range, else eval raises
ParseTrailers(s, i, base) ==
    IF i <= Len(s) /\ s[i] = "[" THEN
        Bind(ParseElem(s, i + 1),
             LAMBDA x :
                 IF x.ok /\ x.next <= Len(s) /\ s[x.next] = "]" /\ base.t = "list"
                    /\ x.val.t = "int" /\ x.val.v < Len(base.v)
                 THEN ParseTrailers(s, x.next + 1, base.v[x.val.v + 1])
                 ELSE ParseFail)
    ELSE ParseOk(base, i)

\* the whole text from i: one expression, or a tuple of expressions
RECURSIVE ParseTop(_, _, _)
ParseTop(s, i, acc) ==
    Bind(ParseElem(s, i),
         LAMBDA e :
             IF ~e.ok THEN ParseFail
             ELSE IF e.next > Len(s)
                  THEN ParseOk(IF acc = <<>> THEN e.val ELSE TupleV(Append(acc, e.val)),
                               e.next)
             ELSE IF s[e.next] # "," THEN ParseFail
             ELSE IF e.next = Len(s) THEN ParseOk(TupleV(Append(acc, e.val)), e.next + 1)
             ELSE Bind(Append(acc, e.val), LAMBDA items : ParseTop(s, e.next + 1, items)))

\* eval(res)
Eval(res) == ParseTop(res, 1, <<>>)

\* call_femm comparing the whole response with the sentinel (res == 'e')
Decode_WholeTextSentinel(res) ==
    IF Len(res) = 0 THEN Returned(ListV(<<>>))
    ELSE IF res = <<"e">> THEN Raised("Exception", res)
    ELSE Bind(Eval(res),
              LAMBDA r :
                  IF ~r.ok THEN Raised("EvalError", res)
                  ELSE IF r.val.t \notin {"list", "tuple"} THEN Raised("TypeError", res)
                  ELSE IF Len(r.val.v) = 1 THEN Returned(r.val.v[1])
                  ELSE Returned(r.val))

\* call_femm without the unwrapping of a one-element sequence
Decode_NoUnwrap(res) ==
    IF Len(res) = 0 THEN Returned(ListV(<<>>))
    ELSE IF res[1] = "e" THEN Raised("Exception", res)
    ELSE Bind(Eval(res),
              LAMBDA r :
                  IF ~r.ok THEN Raised("EvalError", res)
                  ELSE IF r.val.t \notin {"list", "tuple"} THEN Raised("TypeError", res)
                  ELSE Returned(r.val))

\* FEMMSession.call_femm, from the response on: lines 52-60
Decode(res) ==
    IF Len(res) = 0 THEN Returned(ListV(<<>>))
    ELSE IF res[1] = "e" THEN Raised("Exception", res)
    ELSE Bind(Eval(res),
              LAMBDA r :
                  IF ~r.ok THEN Raised("EvalError", res)
                  ELSE IF r.val.t \notin {"list", "tuple"} THEN Raised("TypeError", res)
                  ELSE IF Len(r.val.v) = 1 THEN Returned(r.val.v[1])
                  ELSE Returned(r.val))

\* --------------------------------------------------------- command strings

\* the command names the wrapper writes into its command strings
Name_close == <<"c", "l", "o", "s", "e">>
Name_addnode == <<"a", "d", "d", "n", "o", "d", "e">>
Name_addsegment == <<"a", "d", "d", "s", "e", "g", "m", "e", "n", "t">>
Name_addblocklabel == <<"a", "d", "d", "b", "l", "o", "c", "k", "l", "a", "b", "e", "l">>
Name_addarc == <<"a", "d", "d", "a", "r", "c">>
Name_deleteselected == <<"d", "e", "l", "e", "t", "e", "s", "e", "l", "e", "c", "t", "e", "d">>
Name_deleteselectednodes == <<"d", "e", "l", "e", "t", "e", "s", "e", "l", "e", "c", "t", "e", "d", "n", "o", "d", "e", "s">>
Name_deleteselectedlabels == <<"d", "e", "l", "e", "t", "e", "s", "e", "l", "e", "c", "t", "e", "d", "l", "a", "b", "e", "l", "s">>
Name_deleteselectedsegments == <<"d", "e", "l", "e", "t", "e", "s", "e", "l", "e", "c", "t", "e", "d", "s", "e", "g", "m", "e", "n", "t", "s">>
Name_deleteselectedarcsegments == <<"d", "e", "l", "e", "t", "e", "s", "e", "l", "e", "c", "t", "e", "d", "a", "r", "c", "s", "e", "g", "m", "e", "n", "t", "s">>
Name_zoomnatural == <<"z", "o", "o", "m", "n", "a", "t", "u", "r", "a", "l">>
Name_zoomout == <<"z", "o", "o", "m", "o", "u", "t">>
Name_zoomin == <<"z", "o", "o", "m", "i", "n">>
Name_zoom == <<"z", "o", "o", "m">>
Name_lineintegral == <<"l", "i", "n", "e", "i", "n", "t", "e", "g", "r", "a", "l">>
Name_blockintegral == <<"b", "l", "o", "c", "k", "i", "n", "t", "e", "g", "r", "a", "l">>
Name_getpointvalues == <<"g", "e", "t", "p", "o", "i", "n", "t", "v", "a", "l", "u", "e", "s">>
Name_newdocument == <<"n", "e", "w", "d", "o", "c", "u", "m", "e", "n", "t">>
Name_quit == <<"q", "u", "i", "t">>
Name_setcurrentdirectory == <<"s", "e", "t", "c", "u", "r", "r", "e", "n", "t", "d", "i", "r", "e", "c", "t", "o", "r", "y">>

\* DOCTYPE_MAPPING: a mode name to the number new_document sends
DOCTYPE_MAPPING(name) ==
    CASE name = "magnetics" -> 1 [] name = "electrostatics" -> 2
      [] name = "heat" -> 3 [] name = "current" -> 4

ModeNames == {"magnetics", "electrostatics", "heat", "current"}

\* a doctype argument: a mode name (a str) or a number
NameV(n) == [t |-> "str", v |-> n]

\* DOCTYPE_PREFIX_MAPPING: its keys, and the prefix of a key
HasDoctypePrefix(key) ==
    IF key.t = "int" THEN key.v \in 0..3 ELSE key.v \in ModeNames

DOCTYPE_PREFIX_MAPPING(key) ==
    IF key.t = "int"
    THEN CASE key.v = 0 -> "m" [] key.v = 1 -> "e" [] key.v = 2 -> "h" [] key.v = 3 -> "c"
    ELSE CASE key.v = "magnetics" -> "m" [] key.v = "electrostatics" -> "e"
           [] key.v = "heat" -> "h" [] key.v = "current" -> "c"

\* PREFIX_DOCTYPE_MAPPING
PREFIX_DOCTYPE_MAPPING(prefix) ==
    CASE prefix = "m" -> "magnetics" [] prefix = "e" -> "electrostatics"
      [] prefix = "h" -> "heat" [] prefix = "c" -> "current"

\* FEMMSession._add_doctype_prefix: None + str is a TypeError
AddDoctypePrefix(prefix, string) ==
    IF prefix = NoneVal THEN [ok |-> FALSE, text |-> <<>>]
    ELSE [ok |-> TRUE, text |-> <<prefix>> \o string]

\* BaseAPI._add_mode_prefix
AddModePrefix(mode_prefix, string) == <<mode_prefix, "_">> \o string

\* One step of a method body: a call of FEMMSession.call_femm, a call of
\* FEMMSession.call_femm_with_args, or an exception raised by the body itself.
CallFemm(string, add_doctype_prefix) ==
    [via |-> "call_femm", string |-> string, args |-> <<>>,
     add_doctype_prefix |-> add_doctype_prefix, exc |-> ""]

CallFemmWithArgs(command, args, add_doctype_prefix) ==
    [via |-> "call_femm_with_args", string |-> command, args |-> args,
     add_doctype_prefix |-> add_doctype_prefix, exc |-> ""]

RaiseStep(e) ==
    [via |-> "raise", string |-> <<>>, args |-> <<>>, add_doctype_prefix |-> FALSE, exc |-> e]

\* BaseAPI._call_femm
BaseCallFemm(mode_prefix, string, add_doctype_prefix) ==
    CallFemm(AddModePrefix(mode_prefix, string) \o <<"(", ")">>, add_doctype_prefix)

\* BaseAPI._call_femm_with_args
BaseCallFemmWithArgs(mode_prefix, string, args) ==
    CallFemmWithArgs(AddModePrefix(mode_prefix, string), args, TRUE)

\* The text a step hands to mlab2femm: call_femm lines 48-51, and
\* call_femm_with_args, whose composed string reaches call_femm unprefixed.
CommandText(prefix, step) ==
    IF step.add_doctype_prefix
    THEN LET p == AddDoctypePrefix(prefix, step.string)
         IN  IF step.via = "call_femm" THEN p
             ELSE [ok |-> p.ok, text |-> p.text \o ParseArgs(step.args)]
    ELSE IF step.via = "call_femm" THEN [ok |-> TRUE, text |-> step.string]
    ELSE [ok |-> TRUE, text |-> step.string \o ParseArgs(step.args)]

\* the engine: it answers the k-th command of a call with r and the others with
\* the empty text
RespAt(k, r, i) == IF i = k THEN r ELSE <<>>

\* A method body run against the engine, statement by statement: each command
\* is submitted once and its answer decoded, and the first exception (of the
\* body, of _add_doctype_prefix or of call_femm) ends the body.  Every step
\* before the one that ends it is a submitted command, so step i is the i-th
\* command the engine sees.
StepText(prefix, steps, i) == CommandText(prefix, steps[i])

StepRaises(prefix, steps, i, k, r) ==
    \/ steps[i].via = "raise"
    \/ ~StepText(prefix, steps, i).ok
    \/ Decode(RespAt(k, r, i)).kind = "raise"

\* a body that catches the engine's errors and goes on
LastStep_IgnoreEngineError(prefix, steps, k, r) ==
    LET raising == {i \in 1..Len(steps) :
                       steps[i].via = "raise" \/ ~StepText(prefix, steps, i).ok}
    IN  IF raising = {} THEN Len(steps)
        ELSE CHOOSE i \in raising : \A j \in raising : i <= j

\* the last step the body reaches
LastStep(prefix, steps, k, r) ==
    LET raising == {i \in 1..Len(steps) : StepRaises(prefix, steps, i, k, r)}
    IN  IF raising = {} THEN Len(steps)
        ELSE CHOOSE i \in raising : \A j \in raising : i <= j

Exec(prefix, steps, k, r) ==
    Bind(LastStep(prefix, steps, k, r),
         LAMBDA last :
             LET submitted == last > 0 /\ steps[last].via # "raise"
                              /\ StepText(prefix, steps, last).ok
                 n == IF submitted THEN last ELSE Max(last - 1, 0)
             IN  [log |-> [i \in 1..n |-> [cmd |-> StepText(prefix, steps, i).text,
                                           resp |-> RespAt(k, r, i)]],
                  out |-> IF last = 0 THEN Returned(NoneVal)
                          ELSE IF steps[last].via = "raise"
                               THEN Raised(steps[last].exc, <<>>)
                          ELSE IF ~submitted THEN Raised("TypeError", <<>>)
                          ELSE Decode(RespAt(k, r, last))])

\* --------------------------------------------------------- PreprocessorAPI

\* a point [x, y]
XY(x, y) == <<IntV(x), IntV(y)>>

\* PreprocessorAPI.close
close == <<BaseCallFemm("i", Name_close, TRUE)>>

\* PreprocessorAPI.add_node
add_node(p) == <<BaseCallFemmWithArgs("i", Name_addnode, <<p[1], p[2]>>)>>

\* PreprocessorAPI.add_segment
add_segment(p1, p2) ==
    <<BaseCallFemmWithArgs("i", Name_addsegment, <<p1[1], p1[2], p2[1], p2[2]>>)>>

\* PreprocessorAPI.add_block_label
add_block_label(p) == <<BaseCallFemmWithArgs("i", Name_addblocklabel, <<p[1], p[2]>>)>>

\* PreprocessorAPI.add_arc
add_arc(p1, p2, angle, max_seg) ==
    <<BaseCallFemmWithArgs("i", Name_addarc, <<p1[1], p1[2], p2[1], p2[2], angle, max_seg>>)>>

\* PreprocessorAPI.draw_line
draw_line(p1, p2) == add_node(p1) \o add_node(p2) \o add_segment(p1, p2)

\* PreprocessorAPI.draw_polyline: each node, and from the second point on the
\* line from the previous point
draw_polyline(points_list) ==
    Concat([i \in 1..Len(points_list) |->
        add_node(points_list[i])
        \o (IF i > 1 THEN draw_line(points_list[i - 1], points_list[i]) ELSE <<>>)])

\* PreprocessorAPI.draw_polygon: points_list[0] of an empty list is an IndexError
draw_polygon(points_list) ==
    draw_polyline(points_list)
    \o (IF points_list = <<>> THEN <<RaiseStep("IndexError")>>
        ELSE draw_line(points_list[1], points_list[Len(points_list)]))

\* PreprocessorAPI.draw_arc
draw_arc(p1, p2, angle, max_seg) ==
    add_node(p1) \o add_node(p2) \o add_arc(p1, p2, angle, max_seg)

\* PreprocessorAPI.draw_circle: y +- radius / 2 is a float
draw_circle(p, radius, max_seg) ==
    LET top_point == <<p[1], FloatV(p[2].v * 100000 + radius.v * 50000)>>
        bottom_point == <<p[1], FloatV(p[2].v * 100000 - radius.v * 50000)>>
    IN  draw_arc(top_point, bottom_point, IntV(180), max_seg)
        \o draw_arc(bottom_point, top_point, IntV(180), max_seg)

\* PreprocessorAPI.draw_annulus
draw_annulus(p, inner_radius, outer_radius, max_seg) ==
    draw_circle(p, inner_radius, max_seg) \o draw_circle(p, outer_radius, max_seg)

\* PreprocessorAPI.draw_rectangle
draw_rectangle(p1, p2) ==
    draw_line(<<p1[1], p1[2]>>, <<p2[1], p1[2]>>)
    \o draw_line(<<p2[1], p1[2]>>, <<p2[1], p2[2]>>)
    \o draw_line(<<p2[1], p2[2]>>, <<p1[1], p2[2]>>)
    \o draw_line(<<p1[1], p2[2]>>, <<p1[1], p1[2]>>)

\* np.cos and np.sin of pattern_angle = (2 pi / repeat) * i, in units of 10^-8,
\* for the repeats whose angles are whole degrees
CosSin(i, repeat) ==
    LET deg == (360 * i) \div repeat
    IN  CASE deg = 60 -> <<50000000, 86602540>>
          [] deg = 72 -> <<30901699, 95105652>>
          [] deg = 90 -> <<0, 100000000>>
          [] deg = 120 -> <<-50000000, 86602540>>
          [] deg = 144 -> <<-80901699, 58778525>>
          [] deg = 180 -> <<-100000000, 0>>
          [] deg = 216 -> <<-80901699, -58778525>>
          [] deg = 240 -> <<-50000000, -86602540>>
          [] deg = 270 -> <<0, -100000000>>
          [] deg = 288 -> <<30901699, -95105652>>
          [] deg = 300 -> <<50000000, -86602540>>

\* np.round(x, decimals=5) of x in units of 10^-8, in units of 10^-5
Round5(x) == (x + 500) \div 1000

\* The loop body of the patterns for copy i: the point moved by -center, turned
\* by the rotation matrix, moved by +center and rounded.
Rotate(point, center, i, repeat) ==
    LET cs == CosSin(i, repeat)
        x == point[1].v - center[1].v
        y == point[2].v - center[2].v
    IN  <<FloatV(Round5(cs[1] * x - cs[2] * y + center[1].v * 100000000)),
          FloatV(Round5(cs[2] * x + cs[1] * y + center[2].v * 100000000))>>

\* center=None
NoCenter == [given |-> FALSE, p |-> XY(0, 0)]
Center(x, y) == [given |-> TRUE, p |-> XY(x, y)]

\* new_points of copy i
NewPoints(points, center, i, repeat) ==
    [j \in 1..Len(points) |-> Rotate(points[j], center.p, i, repeat)]

\* ret that starts empty: the original shape is not in it
PatternShapes_NoOriginal(points, center, repeat) ==
    [i \in 1..(repeat - 1) |-> NewPoints(points, center, i, repeat)]

\* ret of draw_polyline_pattern once every copy is drawn
PatternShapes(points, center, repeat) ==
    <<points>> \o [i \in 1..(repeat - 1) |-> NewPoints(points, center, i, repeat)]

\* draw_polyline_pattern with the angle computed inside the loop: repeat = 0
\* divides nothing and draws nothing
draw_polyline_pattern_LazyAngle(points, center, repeat) ==
    Concat([c \in 1..repeat |->
        IF c = 1 THEN draw_polyline(points)
        ELSE IF ~center.given /\ points # <<>> THEN <<RaiseStep("TypeError")>>
        ELSE draw_polyline(NewPoints(points, center, c - 1, repeat))])

\* PreprocessorAPI.draw_polyline_pattern: 2 pi / 0 is a ZeroDivisionError, and a
\* point minus np.array(None) is a TypeError
draw_polyline_pattern(points, center, repeat) ==
    IF repeat = 0 THEN <<RaiseStep("ZeroDivisionError")>>
    ELSE Concat([c \in 1..repeat |->
        IF c = 1 THEN draw_polyline(points)
        ELSE IF ~center.given /\ points # <<>> THEN <<RaiseStep("TypeError")>>
        ELSE draw_polyline(NewPoints(points, center, c - 1, repeat))])

\* PreprocessorAPI.draw_arc_pattern
draw_arc_pattern(p1, p2, angle, max_seg, center, repeat) ==
    IF repeat = 0 THEN <<RaiseStep("ZeroDivisionError")>>
    ELSE Concat([c \in 1..repeat |->
        IF c = 1 THEN draw_arc(p1, p2, angle, max_seg)
        ELSE IF ~center.given THEN <<RaiseStep("TypeError")>>
        ELSE LET new_points == NewPoints(<<p1, p2>>, center, c - 1, repeat)
             IN  draw_arc(new_points[1], new_points[2], angle, max_seg)])

\* PreprocessorAPI.delete_selected
delete_selected == <<BaseCallFemm("i", Name_deleteselected, FALSE)>>

\* PreprocessorAPI.delete_selected_nodes
delete_selected_nodes == <<BaseCallFemm("i", Name_deleteselectednodes, FALSE)>>

\* PreprocessorAPI.delete_selected_labels
delete_selected_labels == <<BaseCallFemm("i", Name_deleteselectedlabels, FALSE)>>

\* PreprocessorAPI.delete_selected_segments
delete_selected_segments == <<BaseCallFemm("i", Name_deleteselectedsegments, FALSE)>>

\* PreprocessorAPI.delete_selected_arc_segments
delete_selected_arc_segments == <<BaseCallFemm("i", Name_deleteselectedarcsegments, FALSE)>>

\* PreprocessorAPI.zoom_natural
zoom_natural == <<BaseCallFemm("i", Name_zoomnatural, TRUE)>>

\* PreprocessorAPI.zoom_out
zoom_out == <<BaseCallFemm("i", Name_zoomout, TRUE)>>

\* PreprocessorAPI.zoom_in
zoom_in == <<BaseCallFemm("i", Name_zoomin, TRUE)>>

\* PreprocessorAPI.zoom
zoom(p1, p2) == <<BaseCallFemmWithArgs("i", Name_zoom, <<p1[1], p1[2], p2[1], p2[2]>>)>>

\* -------------------------------------------------------- PostProcessorAPI

\* PostProcessorAPI.line_integral
line_integral(integral_type) ==
    <<BaseCallFemmWithArgs("o", Name_lineintegral, <<integral_type>>)>>

\* PostProcessorAPI.block_integral
block_integral(integral_type) ==
    <<BaseCallFemmWithArgs("o", Name_blockintegral, <<integral_type>>)>>

\* PostProcessorAPI.get_point_values
get_point_values(p) == <<BaseCallFemmWithArgs("o", Name_getpointvalues, <<p[1], p[2]>>)>>

\* ------------------------------------------------------------------ inputs

\* os.getcwd(): the paths of the model
PathChars == {"\\", "/", "a"}
Paths == UNION {[1..n -> PathChars] : n \in 0..MaxPathLen}

\* the engine's answers in the session model: nothing, an error, one value, two
\* values, and a text that is no sequence
Responses == {<<>>, <<"e", "r", "r">>, <<"[", "1", "]">>, <<"[", "1", ",", "2", "]">>, <<"1">>}

\* the engine's answers in the decoding model: every text over the alphabet
RespChars == {"e", "[", "]", ",", "1", "2"}
RespTexts == UNION {[1..n -> RespChars] : n \in 0..MaxRespLen}

\* the arguments of the encoding model
ArgValues == {IntV(0), IntV(7), IntV(-12), IntV(105), FloatV(50000), FloatV(-150000),
              StrV(<<>>), StrV(<<"a", "b">>), StrV(<<"\"">>)}
ArgLists == UNION {[1..n -> ArgValues] : n \in 0..MaxArgs}

ShapePoints == {XY(0, 0), XY(1, 0)}
PointLists == UNION {[1..n -> ShapePoints] : n \in 0..MaxPoints}
Centers == {NoCenter, Center(0, 0), Center(1, 1)}
Repeats == 0..MaxRepeat
Angles == {IntV(90)}
MaxSegs == {IntV(1)}
Radii == {IntV(1), IntV(2)}
IntegralTypes == {IntV(0), IntV(3)}
DoctypeInputs == {NameV(n) : n \in ModeNames} \cup {IntV(n) : n \in 0..3}

\* The wrapper is synchronous and single-threaded: a method is called when no
\* call is in progress.
NoCall == [api |-> "none", op |-> "none", args |-> <<>>, before |-> NoneVal]
Idle == call.op = "none"

\* ----------------------------------------------------------------- actions

Init ==
    /\ started = FALSE
    /\ doctype_prefix = NoneVal
    /\ engine_log = <<>>
    /\ call = NoCall
    /\ outcome = Returned(NoneVal)

\* FEMMSession.__init__ with os.getcwd() = path: set_current_directory, then the
\* two APIs.  An exception leaves no session.
Construct ==
    /\ Idle /\ ~started
    /\ \E path \in Paths, r \in Responses :
        LET path_of_current_directory == FixPath(path)
            e == Exec(NoneVal,
                      <<CallFemm(Name_setcurrentdirectory \o <<"(">>
                                 \o Quote(path_of_current_directory) \o <<")">>, FALSE)>>,
                      1, r)
        IN  /\ started' = (e.out.kind = "return")
            /\ engine_log' = e.log
            /\ call' = [api |-> "session", op |-> "__init__", args |-> path,
                        before |-> doctype_prefix]
            /\ outcome' = IF e.out.kind = "return" THEN Returned(NoneVal) ELSE e.out
            /\ UNCHANGED doctype_prefix

\* A method whose body is the steps, called on the session; the engine answers
\* its k-th command with r.  A method that returns nothing returns None.
Invoke(api, op, args, steps, k, r, returns_value) ==
    LET e == Exec(doctype_prefix, steps, k, r)
    IN  /\ engine_log' = e.log
        /\ call' = [api |-> api, op |-> op, args |-> args, before |-> doctype_prefix]
        /\ outcome' = IF e.out.kind = "return" /\ ~returns_value
                      THEN Returned(NoneVal) ELSE e.out
        /\ UNCHANGED <<started, doctype_prefix>>

\* FEMMSession.new_document
new_document ==
    /\ Idle /\ started
    /\ \E doctype \in DoctypeInputs, r \in Responses :
        LET mode == IF doctype.t = "str" THEN IntV(DOCTYPE_MAPPING(doctype.v)) ELSE doctype
            e == Exec(doctype_prefix,
                      <<CallFemm(Name_newdocument \o <<"(">> \o NumToStr(mode) \o <<")">>,
                                 FALSE)>>,
                      1, r)
            set == e.out.kind = "return" /\ HasDoctypePrefix(mode)
        IN  /\ engine_log' = e.log
            /\ call' = [api |-> "session", op |-> "new_document", args |-> doctype,
                        before |-> doctype_prefix]
            /\ doctype_prefix' = IF set THEN DOCTYPE_PREFIX_MAPPING(mode) ELSE doctype_prefix
            /\ outcome' = IF e.out.kind = "raise" THEN e.out
                          ELSE IF set THEN Returned(NoneVal)
                          ELSE Raised("KeyError", <<>>)
            /\ UNCHANGED started

\* FEMMSession.set_mode
set_mode ==
    /\ Idle /\ started
    /\ \E doctype \in DoctypeInputs :
        /\ engine_log' = <<>>
        /\ call' = [api |-> "session", op |-> "set_mode", args |-> doctype,
                    before |-> doctype_prefix]
        /\ doctype_prefix' = IF HasDoctypePrefix(doctype)
                             THEN DOCTYPE_PREFIX_MAPPING(doctype) ELSE doctype_prefix
        /\ outcome' = IF HasDoctypePrefix(doctype)
                      THEN Returned(NoneVal) ELSE Raised("KeyError", <<>>)
        /\ UNCHANGED started

\* FEMMSession.mode
mode ==
    /\ Idle /\ started
    /\ engine_log' = <<>>
    /\ call' = [api |-> "session", op |-> "mode", args |-> <<>>, before |-> doctype_prefix]
    /\ outcome' = IF doctype_prefix = NoneVal THEN Raised("KeyError", <<>>)
                  ELSE Returned(PREFIX_DOCTYPE_MAPPING(doctype_prefix))
    /\ UNCHANGED <<started, doctype_prefix>>

\* FEMMSession.quit
quit ==
    /\ Idle /\ started
    /\ \E r \in Responses :
        Invoke("session", "quit", <<>>, <<CallFemm(Name_quit \o <<"(", ")">>, FALSE)>>,
               1, r, FALSE)

\* FEMMSession.call_femm called with a command string, the engine answering r
call_femm(texts) ==
    /\ Idle /\ started
    /\ \E add_doctype_prefix \in BOOLEAN, r \in texts :
        Invoke("session", "call_femm", add_doctype_prefix,
               <<CallFemm(Name_quit \o <<"(", ")">>, add_doctype_prefix)>>, 1, r, TRUE)

\* FEMMSession.call_femm_with_args called with a command and its arguments
call_femm_with_args(lists) ==
    /\ Idle /\ started
    /\ \E args \in lists, add_doctype_prefix \in BOOLEAN :
        Invoke("session", "call_femm_with_args", <<args, add_doctype_prefix>>,
               <<CallFemmWithArgs(Name_zoom, args, add_doctype_prefix)>>, 1, <<>>, TRUE)

Call_close ==
    /\ Idle /\ started
    /\ \E k \in 1..1, r \in Responses :
        Invoke("pre", "close", <<>>, close, k, r, FALSE)

Call_delete_selected ==
    /\ Idle /\ started
    /\ \E k \in 1..1, r \in Responses :
        Invoke("pre", "delete_selected", <<>>, delete_selected, k, r, FALSE)

Call_delete_selected_nodes ==
    /\ Idle /\ started
    /\ \E k \in 1..1, r \in Responses :
        Invoke("pre", "delete_selected_nodes", <<>>, delete_selected_nodes, k, r, FALSE)

Call_delete_selected_labels ==
    /\ Idle /\ started
    /\ \E k \in 1..1, r \in Responses :
        Invoke("pre", "delete_selected_labels", <<>>, delete_selected_labels, k, r, FALSE)

Call_delete_selected_segments ==
    /\ Idle /\ started
    /\ \E k \in 1..1, r \in Responses :
        Invoke("pre", "delete_selected_segments", <<>>, delete_selected_segments, k, r, FALSE)

Call_delete_selected_arc_segments ==
    /\ Idle /\ started
    /\ \E k \in 1..1, r \in Responses :
        Invoke("pre", "delete_selected_arc_segments", <<>>, delete_selected_arc_segments, k, r, FALSE)

Call_zoom_natural ==
    /\ Idle /\ started
    /\ \E k \in 1..1, r \in Responses :
        Invoke("pre", "zoom_natural", <<>>, zoom_natural, k, r, FALSE)

Call_zoom_out ==
    /\ Idle /\ started
    /\ \E k \in 1..1, r \in Responses :
        Invoke("pre", "zoom_out", <<>>, zoom_out, k, r, FALSE)

Call_zoom_in ==
    /\ Idle /\ started
    /\ \E k \in 1..1, r \in Responses :
        Invoke("pre", "zoom_in", <<>>, zoom_in, k, r, FALSE)

Call_add_node ==
    /\ Idle /\ started
    /\ \E p \in ShapePoints, r \in Responses :
        Invoke("pre", "add_node", <<p>>, add_node(p), 1, r, FALSE)

Call_add_segment ==
    /\ Idle /\ started
    /\ \E p1 \in ShapePoints, p2 \in ShapePoints, r \in Responses :
        Invoke("pre", "add_segment", <<p1, p2>>, add_segment(p1, p2), 1, r, FALSE)

Call_add_block_label ==
    /\ Idle /\ started
    /\ \E p \in ShapePoints, r \in Responses :
        Invoke("pre", "add_block_label", <<p>>, add_block_label(p), 1, r, FALSE)

Call_add_arc ==
    /\ Idle /\ started
    /\ \E p1 \in ShapePoints, p2 \in ShapePoints, angle \in Angles, max_seg \in MaxSegs,
       r \in Responses :
        Invoke("pre", "add_arc", <<p1, p2, angle, max_seg>>,
               add_arc(p1, p2, angle, max_seg), 1, r, FALSE)

Call_zoom ==
    /\ Idle /\ started
    /\ \E p1 \in ShapePoints, p2 \in ShapePoints, r \in Responses :
        Invoke("pre", "zoom", <<p1, p2>>, zoom(p1, p2), 1, r, FALSE)

Call_draw_line ==
    /\ Idle /\ started
    /\ \E p1 \in ShapePoints, p2 \in ShapePoints, r \in Responses :
        \E k \in 1..Len(draw_line(p1, p2)) :
            Invoke("pre", "draw_line", <<p1, p2>>, draw_line(p1, p2), k, r, FALSE)

Call_draw_polyline ==
    /\ Idle /\ started
    /\ \E points_list \in PointLists, r \in Responses :
        \E k \in 1..Max(1, Len(draw_polyline(points_list))) :
            Invoke("pre", "draw_polyline", points_list, draw_polyline(points_list),
                   k, r, FALSE)

Call_draw_polygon ==
    /\ Idle /\ started
    /\ \E points_list \in PointLists, r \in Responses :
        \E k \in 1..Len(draw_polygon(points_list)) :
            Invoke("pre", "draw_polygon", points_list, draw_polygon(points_list),
                   k, r, FALSE)

Call_draw_arc ==
    /\ Idle /\ started
    /\ \E p1 \in ShapePoints, p2 \in ShapePoints, angle \in Angles, max_seg \in MaxSegs,
       r \in Responses :
        \E k \in 1..Len(draw_arc(p1, p2, angle, max_seg)) :
            Invoke("pre", "draw_arc", <<p1, p2, angle, max_seg>>,
                   draw_arc(p1, p2, angle, max_seg), k, r, FALSE)

Call_draw_circle ==
    /\ Idle /\ started
    /\ \E p \in ShapePoints, radius \in Radii, max_seg \in MaxSegs, r \in Responses :
        \E k \in 1..Len(draw_circle(p, radius, max_seg)) :
            Invoke("pre", "draw_circle", <<p, radius, max_seg>>,
                   draw_circle(p, radius, max_seg), k, r, FALSE)

Call_draw_annulus ==
    /\ Idle /\ started
    /\ \E p \in ShapePoints, inner_radius \in Radii, outer_radius \in Radii,
       max_seg \in MaxSegs, r \in Responses :
        \E k \in 1..Len(draw_annulus(p, inner_radius, outer_radius, max_seg)) :
            Invoke("pre", "draw_annulus", <<p, inner_radius, outer_radius, max_seg>>,
                   draw_annulus(p, inner_radius, outer_radius, max_seg), k, r, FALSE)

Call_draw_rectangle ==
    /\ Idle /\ started
    /\ \E p1 \in ShapePoints, p2 \in ShapePoints, r \in Responses :
        \E k \in 1..Len(draw_rectangle(p1, p2)) :
            Invoke("pre", "draw_rectangle", <<p1, p2>>, draw_rectangle(p1, p2), k, r, FALSE)

\* draw_polyline_pattern returns ret
Call_draw_polyline_pattern ==
    /\ Idle /\ started
    /\ \E points \in PointLists, center \in Centers, repeat \in Repeats, r \in Responses :
        LET steps == draw_polyline_pattern(points, center, repeat)
        IN  \E k \in 1..Max(1, Len(steps)) :
            LET e == Exec(doctype_prefix, steps, k, r)
            IN  /\ engine_log' = e.log
                /\ call' = [api |-> "pre", op |-> "draw_polyline_pattern",
                            args |-> [points |-> points, center |-> center,
                                      repeat |-> repeat],
                            before |-> doctype_prefix]
                /\ outcome' = IF e.out.kind = "raise" THEN e.out
                              ELSE Returned(PatternShapes(points, center, repeat))
                /\ UNCHANGED <<started, doctype_prefix>>

Call_draw_arc_pattern ==
    /\ Idle /\ started
    /\ \E p1 \in ShapePoints, p2 \in ShapePoints, angle \in Angles, max_seg \in MaxSegs,
       center \in Centers, repeat \in Repeats, r \in Responses :
        LET steps == draw_arc_pattern(p1, p2, angle, max_seg, center, repeat)
        IN  \E k \in 1..Len(steps) :
            Invoke("pre", "draw_arc_pattern",
                   [points |-> <<p1, p2>>, center |-> center, repeat |-> repeat],
                   steps, k, r, FALSE)

Call_line_integral ==
    /\ Idle /\ started
    /\ \E integral_type \in IntegralTypes, r \in Responses :
        Invoke("post", "line_integral", <<integral_type>>, line_integral(integral_type),
               1, r, TRUE)

Call_block_integral ==
    /\ Idle /\ started
    /\ \E integral_type \in IntegralTypes, r \in Responses :
        Invoke("post", "block_integral", <<integral_type>>, block_integral(integral_type),
               1, r, TRUE)

Call_get_point_values ==
    /\ Idle /\ started
    /\ \E p \in ShapePoints, r \in Responses :
        Invoke("post", "get_point_values", <<p>>, get_point_values(p), 1, r, TRUE)

Call_call_femm == call_femm(Responses)

Call_call_femm_with_args == call_femm_with_args({<<>>, <<IntV(7)>>})

\* The call in progress ends: its caller has the outcome, and the session
\* waits for the next call.
Return ==
    /\ ~Idle
    /\ call' = NoCall
    /\ engine_log' = <<>>
    /\ outcome' = Returned(NoneVal)
    /\ UNCHANGED <<started, doctype_prefix>>

Next ==
    \/ Construct
    \/ Return
    \/ new_document
    \/ set_mode
    \/ mode
    \/ quit
    \/ Call_call_femm
    \/ Call_call_femm_with_args
    \/ Call_close
    \/ Call_delete_selected
    \/ Call_delete_selected_nodes
    \/ Call_delete_selected_labels
    \/ Call_delete_selected_segments
    \/ Call_delete_selected_arc_segments
    \/ Call_zoom_natural
    \/ Call_zoom_out
    \/ Call_zoom_in
    \/ Call_add_node
    \/ Call_add_segment
    \/ Call_add_block_label
    \/ Call_add_arc
    \/ Call_zoom
    \/ Call_draw_line
    \/ Call_draw_polyline
    \/ Call_draw_polygon
    \/ Call_draw_arc
    \/ Call_draw_circle
    \/ Call_draw_annulus
    \/ Call_draw_rectangle
    \/ Call_draw_polyline_pattern
    \/ Call_draw_arc_pattern
    \/ Call_line_integral
    \/ Call_block_integral
    \/ Call_get_point_values

Spec == Init /\ [][Next]_vars

\* A session as the main specification reaches it: constructed, with or without
\* a document, no call in progress.
InitSession ==
    /\ started = TRUE
    /\ doctype_prefix \in {NoneVal, "m", "e", "h", "c"}
    /\ engine_log = <<>>
    /\ call = NoCall
    /\ outcome = Returned(NoneVal)

\* call_femm against every response text of the alphabet
Decode_call_femm == call_femm(RespTexts)

NextDecode == Decode_call_femm \/ Return

SpecDecode == InitSession /\ [][NextDecode]_vars

\* call_femm_with_args on every argument list
Args_call_femm_with_args == call_femm_with_args(ArgLists)

NextArgs == Args_call_femm_with_args \/ Return

SpecArgs == InitSession /\ [][NextArgs]_vars

\* ------------------------------------------------------------------ claims

IsErrorText(res) == Len(res) > 0 /\ res[1] = "e"

\* the engine answered some command of the call with an error, or with a text
\* call_femm cannot decode
EngineFailed == \E i \in 1..Len(engine_log) : Decode(engine_log[i].resp).kind = "raise"

\* C1: a response text that starts with the error sentinel makes call_femm raise
\* an exception that carries the whole text, whatever follows the sentinel; no
\* value is returned.
C1_SentinelAlwaysRaises ==
    (call.op = "call_femm" /\ engine_log # <<>> /\ IsErrorText(engine_log[1].resp))
        => outcome = Raised("Exception", engine_log[1].resp)

\* C1 witness: the engine answered "e[1]", a sentinel followed by what would
\* decode as data, and call_femm raised.
C1_Witness ==
    /\ call.op = "call_femm"
    /\ engine_log # <<>>
    /\ engine_log[1].resp = <<"e", "[", "1", "]">>
    /\ outcome.kind = "raise"

\* the flat list literals the decoding is tried on: "[" numbers joined by "," "]"
RECURSIVE JoinComma(_)
JoinComma(parts) ==
    IF parts = <<>> THEN <<>>
    ELSE IF Len(parts) = 1 THEN parts[1]
    ELSE parts[1] \o <<",">> \o JoinComma(Tail(parts))

ListText(vals) == <<"[">> \o JoinComma([i \in 1..Len(vals) |-> NatToStr(vals[i])]) \o <<"]">>

PayloadValues == {1, 2, 12, 21}
Payloads == UNION {[1..n -> PayloadValues] : n \in 0..3}
PayloadTexts == {<<ListText(vals), vals>> : vals \in Payloads}

\* C4: on the empty response call_femm returns the empty sequence; on a payload
\* of exactly one value it returns that value, not a sequence; on a payload of
\* k # 1 values it returns the sequence of the k values in source order.
C4_DecodedResult ==
    (call.op = "call_femm" /\ engine_log # <<>>) =>
        /\ engine_log[1].resp = <<>> => outcome = Returned(ListV(<<>>))
        /\ \A pt \in PayloadTexts :
               engine_log[1].resp = pt[1] =>
                   outcome = Returned(IF Len(pt[2]) = 1 THEN IntV(pt[2][1])
                                      ELSE ListV([i \in 1..Len(pt[2]) |-> IntV(pt[2][i])]))

\* C4 witness: the engine answered "[2,1]" and call_femm returned the two values
\* in that order.
C4_Witness ==
    /\ call.op = "call_femm"
    /\ engine_log # <<>>
    /\ engine_log[1].resp = <<"[", "2", ",", "1", "]">>
    /\ outcome = Returned(ListV(<<IntV(2), IntV(1)>>))

\* what each argument of the encoding model must be written as
ExpectedArg(arg) ==
    IF arg.t = "str" THEN <<"\"">> \o arg.v \o <<"\"">>
    ELSE IF arg.t = "float"
         THEN (IF arg.v = 50000 THEN <<"0", ".", "5">> ELSE <<"-", "1", ".", "5">>)
    ELSE CASE arg.v = 0 -> <<"0">>
           [] arg.v = 7 -> <<"7">>
           [] arg.v = -12 -> <<"-", "1", "2">>
           [] arg.v = 105 -> <<"1", "0", "5">>

RECURSIVE ExpectedArgsFrom(_, _)
ExpectedArgsFrom(args, i) ==
    IF i > Len(args) THEN <<")">>
    ELSE (IF i > 1 THEN <<",", " ">> ELSE <<>>) \o ExpectedArg(args[i])
         \o ExpectedArgsFrom(args, i + 1)

\* C9: the argument list is written as "(", the arguments in their order joined
\* by ", ", and ")": a text verbatim between double quotes, a number in decimal.
C9_ArgsEncoding ==
    (call.op = "call_femm_with_args" /\ engine_log # <<>>) =>
        engine_log[1].cmd =
            (IF call.args[2] THEN <<call.before>> ELSE <<>>)
            \o Name_zoom \o <<"(">> \o ExpectedArgsFrom(call.args[1], 1)

\* C9 witness: a negative number and a text that is one double quote were sent as
\* (-12, """).
C9_Witness ==
    /\ call.op = "call_femm_with_args"
    /\ call.args[1] = <<IntV(-12), StrV(<<"\"">>)>>
    /\ engine_log # <<>>
    /\ engine_log[1].cmd = Name_zoom \o <<"(", "-", "1", "2", ",", " ", "\"", "\"", "\"", ")">>

\* the ordinal code (0-3) of a doctype argument: new_document's docstring
OrdinalOf(doctype) ==
    IF doctype.t = "int" THEN doctype.v
    ELSE CASE doctype.v = "magnetics" -> 0 [] doctype.v = "electrostatics" -> 1
           [] doctype.v = "heat" -> 2 [] doctype.v = "current" -> 3

\* C2: a mode set by its name or by its ordinal code, through set_mode or through
\* new_document, leaves the session with the prefix that the ordinal code gives,
\* and the mode property then reports the mode of that ordinal.
C2_NameAndOrdinalAgree ==
    (call.op \in {"set_mode", "new_document"} /\ ~EngineFailed) =>
        /\ outcome.kind = "return"
        /\ doctype_prefix = DOCTYPE_PREFIX_MAPPING(IntV(OrdinalOf(call.args)))

\* C3: a pre-processing or post-processing method called while the doctype prefix
\* is undefined raises, and the engine receives no command.
C3_NoCommandBeforeDocument ==
    (call.api \in {"pre", "post"} /\ call.before = NoneVal) =>
        (outcome.kind = "raise" /\ engine_log = <<>>)

\* the shape turned by half a turn about the center: every point p becomes
\* 2 * center - p
HalfTurn(points, center) ==
    [j \in 1..Len(points) |->
        <<FloatV((2 * center.p[1].v - points[j][1].v) * 100000),
          FloatV((2 * center.p[2].v - points[j][2].v) * 100000)>>]

\* C5: with a document open, a center given (or nothing to rotate) and the engine
\* accepting every command, draw_polyline_pattern with repeat n >= 1 returns n
\* shapes of the input's length, the first the input itself, copy n/2 the half
\* turn of the input; with n = 1 the result is the input alone and the engine
\* has received the commands of one draw_polyline only.
C5_PatternShapes ==
    (/\ call.op = "draw_polyline_pattern"
     /\ call.args.repeat >= 1
     /\ call.before # NoneVal
     /\ (call.args.repeat = 1 \/ call.args.center.given \/ call.args.points = <<>>)
     /\ ~EngineFailed) =>
        /\ outcome.kind = "return"
        /\ Len(outcome.value) = call.args.repeat
        /\ outcome.value[1] = call.args.points
        /\ \A i \in 1..call.args.repeat : Len(outcome.value[i]) = Len(call.args.points)
        /\ \A i \in 1..(call.args.repeat - 1) :
               (2 * i = call.args.repeat /\ call.args.center.given) =>
                   outcome.value[i + 1] = HalfTurn(call.args.points, call.args.center)
        /\ call.args.repeat = 1 =>
               /\ outcome.value = <<call.args.points>>
               /\ Len(engine_log) = Max(4 * Len(call.args.points) - 3, 0)

\* C5 witness: a two-point polyline repeated twice about (1, 1) came back as two
\* shapes.
C5_Witness ==
    /\ call.op = "draw_polyline_pattern"
    /\ call.args.repeat = 2
    /\ call.args.center = Center(1, 1)
    /\ call.args.points = <<XY(0, 0), XY(1, 0)>>
    /\ call.before = "m"
    /\ outcome.kind = "return"
    /\ Len(outcome.value) = 2
    /\ Len(engine_log) = 10

\* C6: both patterns called with repeat = 0 raise (the division by zero), and the
\* engine receives no command.
C6_ZeroRepeatRaises ==
    (call.op \in {"draw_polyline_pattern", "draw_arc_pattern"} /\ call.args.repeat = 0) =>
        (outcome = Raised("ZeroDivisionError", <<>>) /\ engine_log = <<>>)

\* C6 witness: with a document open, a pattern of a non-empty shape was called
\* with repeat = 0 and raised.
C6_Witness ==
    /\ call.op \in {"draw_polyline_pattern", "draw_arc_pattern"}
    /\ call.args.repeat = 0
    /\ call.args.points # <<>>
    /\ call.before = "m"
    /\ outcome.kind = "raise"

RECURSIVE HasPair(_, _)
HasPair(s, pair) ==
    Len(s) >= 2 /\ (SubSeq(s, 1, 2) = pair \/ HasPair(Tail(s), pair))

HasChar(s, c) == \E i \in 1..Len(s) : s[i] = c

\* the directory inside setcurrentdirectory("...")
SentDirectory(cmd) == SubSeq(cmd, Len(Name_setcurrentdirectory) + 3, Len(cmd) - 2)

IsDirectoryCommand(cmd) ==
    /\ Len(cmd) >= Len(Name_setcurrentdirectory) + 4
    /\ cmd = Name_setcurrentdirectory \o <<"(", "\"">> \o SentDirectory(cmd) \o <<"\"", ")">>

\* C7: the directory sent at session start is _fix_path of the working directory,
\* and it has no backslash and no two forward slashes in a row, for every path.
C7_NoDoubledSlash ==
    (call.op = "__init__" /\ engine_log # <<>>) =>
        /\ IsDirectoryCommand(engine_log[1].cmd)
        /\ SentDirectory(engine_log[1].cmd) = FixPath(call.args)
        /\ ~HasChar(SentDirectory(engine_log[1].cmd), "\\")
        /\ ~HasPair(SentDirectory(engine_log[1].cmd), <<"/", "/">>)

\* C8: when the engine answers a command with an error, that command is the last
\* one the call submits, the call raises the exception that carries the answer,
\* and the doctype prefix is what it was before the call.
C8_ErrorEndsCall ==
    \A i \in 1..Len(engine_log) :
        IsErrorText(engine_log[i].resp) =>
            /\ i = Len(engine_log)
            /\ outcome = Raised("Exception", engine_log[i].resp)
            /\ call.op # "__init__" => doctype_prefix = call.before

\* C8 witness: the engine refused the fifth command of a draw_rectangle, the
\* second line's second node, and the call raised after five commands.
C8_Witness ==
    /\ call.op = "draw_rectangle"
    /\ call.before = "m"
    /\ Len(engine_log) = 5
    /\ IsErrorText(engine_log[5].resp)
    /\ outcome.kind = "raise"

\* C10: with a document open, every command of a pre-processing or
\* post-processing method is the doctype prefix, "i" or "o", "_", a name and a
\* parenthesised argument list.
C10_CommandForm ==
    (call.api \in {"pre", "post"} /\ call.before # NoneVal) =>
        \A i \in 1..Len(engine_log) :
            LET cmd == engine_log[i].cmd
            IN  /\ Len(cmd) >= 5
                /\ cmd[1] = call.before
                /\ cmd[2] = (IF call.api = "pre" THEN "i" ELSE "o")
                /\ cmd[3] = "_"
                /\ HasChar(cmd, "(")
                /\ cmd[Len(cmd)] = ")"

====
